---- MODULE Spec2Model ----
(***************************************************************************)
(* A model of the tmix-security provider (src/tmix-security.js): the       *)
(* permissions cache and fetch layer, the isAuthorized decision chain,     *)
(* the findIn matcher and the authorizeOrRedirect navigation gate.         *)
(*                                                                         *)
(* JavaScript values are a tagged union.  Every value is a record with the *)
(* same five fields, so that any two values can be compared:               *)
(*   t    the tag: "undef" "null" "bool" "num" "str" "arr" "map" "fn"      *)
(*   n    the number of a "num", 1/0 for a "bool"                          *)
(*   s    the characters of a "str" (a sequence of characters), the name   *)
(*        of a "fn"                                                        *)
(*   keys the own keys of a "map", each a sequence of characters           *)
(*   kids the values of a "map" (by position of the key) or the elements   *)
(*        of an "arr"                                                      *)
(* A string is a sequence of characters of an alphabet whose characters    *)
(* have long names: "/" and "#" are the delimiter characters, "canEdit" is *)
(* one character, so 'canEdit/2' is <<"canEdit", "/", "2">>.               *)
(***************************************************************************)
EXTENDS Integers, Sequences, FiniteSets, TLC

V(t, n, s, keys, kids) == [t |-> t, n |-> n, s |-> s, keys |-> keys, kids |-> kids]

Undef == V("undef", 0, <<>>, <<>>, <<>>)
Null == V("null", 0, <<>>, <<>>, <<>>)
Bool(b) == V("bool", IF b THEN 1 ELSE 0, <<>>, <<>>, <<>>)
Num(n) == V("num", n, <<>>, <<>>, <<>>)
Str(s) == V("str", 0, s, <<>>, <<>>)
Arr(kids) == V("arr", 0, <<>>, <<>>, kids)
Map(keys, kids) == V("map", 0, <<>>, keys, kids)
Fn(name) == V("fn", 0, <<name>>, <<>>, <<>>)
EmptyMap == Map(<<>>, <<>>)

\* !!v
Truthy(v) ==
    CASE v.t = "undef" -> FALSE
      [] v.t = "null" -> FALSE
      [] v.t = "bool" -> v.n = 1
      [] v.t = "num" -> v.n # 0
      [] v.t = "str" -> v.s # <<>>
      [] OTHER -> TRUE

\* a || b
OrElse(a, b) == IF Truthy(a) THEN a ELSE b

\* Array.prototype.indexOf with a string argument: strict equality, so only a
\* string element with the same characters matches; 0 when there is none
\* (positions are 1-based here, JavaScript's -1 is 0).
IndexOf(arr, s) ==
    LET hits == {i \in 1..Len(arr.kids) : arr.kids[i].t = "str" /\ arr.kids[i].s = s}
    IN IF hits = {} THEN 0 ELSE CHOOSE i \in hits : \A j \in hits : i <= j

\* The characters that are canonical array indexes (documents have fewer
\* than ten elements, so an index has one digit).
DigitVal(c) ==
    CASE c = "0" -> 0 [] c = "1" -> 1 [] c = "2" -> 2 [] c = "3" -> 3
      [] c = "4" -> 4 [] c = "5" -> 5 [] c = "6" -> 6 [] c = "7" -> 7
      [] c = "8" -> 8 [] c = "9" -> 9 [] OTHER -> -1

IsIndex(token, len) == Len(token) = 1 /\ DigitVal(token[1]) >= 0 /\ DigitVal(token[1]) < len

KeyPos(m, token) ==
    LET hits == {i \in 1..Len(m.keys) : m.keys[i] = token}
    IN IF hits = {} THEN 0 ELSE CHOOSE i \in hits : TRUE

\* Names every object inherits from its prototype.
ProtoProps == {<<"constructor">>}

\* cursor[token] for a cursor that is neither null nor undefined.
GetProp(cursor, token) ==
    CASE cursor.t = "map" ->
            IF KeyPos(cursor, token) # 0 THEN cursor.kids[KeyPos(cursor, token)]
            ELSE IF token \in ProtoProps THEN Fn("constructor")
            ELSE Undef
      [] cursor.t = "arr" ->
            IF IsIndex(token, Len(cursor.kids)) THEN cursor.kids[DigitVal(token[1]) + 1]
            ELSE IF token = <<"length">> THEN Num(Len(cursor.kids))
            ELSE IF token \in ProtoProps THEN Fn("constructor")
            ELSE Undef
      [] cursor.t = "str" ->
            IF IsIndex(token, Len(cursor.s)) THEN Str(<<cursor.s[DigitVal(token[1]) + 1]>>)
            ELSE IF token = <<"length">> THEN Num(Len(cursor.s))
            ELSE IF token \in ProtoProps THEN Fn("constructor")
            ELSE Undef
      [] cursor.t = "fn" ->
            IF token = <<"length">> THEN Num(1)
            ELSE IF token \in ProtoProps THEN Fn("constructor")
            ELSE Undef
      [] OTHER -> IF token \in ProtoProps THEN Fn("constructor") ELSE Undef

IsPrefix(d, s) == Len(d) <= Len(s) /\ SubSeq(s, 1, Len(d)) = d

\* String.prototype.split with a non-empty separator: the sequence of tokens.
RECURSIVE SplitFrom(_, _, _)
SplitFrom(s, d, cur) ==
    IF s = <<>> THEN <<cur>>
    ELSE IF IsPrefix(d, s) THEN <<cur>> \o SplitFrom(SubSeq(s, Len(d) + 1, Len(s)), d, <<>>)
    ELSE SplitFrom(Tail(s), d, Append(cur, Head(s)))

Split(s, d) == SplitFrom(s, d, <<>>)

\* The loop of findIn: the final cursor, or the marker "throw" in field t
\* when a property of null is read.
Thrown == V("throw", 0, <<>>, <<>>, <<>>)

RECURSIVE FindCursor(_, _)
FindCursor(cursor, tokens) ==
    IF tokens = <<>> THEN cursor
    ELSE IF cursor.t \in {"null", "undef"} THEN Thrown
    ELSE IF GetProp(cursor, Head(tokens)).t # "undef"
         THEN FindCursor(GetProp(cursor, Head(tokens)), Tail(tokens))
    ELSE IF cursor.t = "arr" /\ IndexOf(cursor, Head(tokens)) # 0
         THEN FindCursor(cursor.kids[IndexOf(cursor, Head(tokens))], Tail(tokens))
    ELSE Null

findInDefaultDelimiter(query, object, delimiter) ==
    LET cursor == FindCursor(object, Split(query, <<"/">>))
    IN IF cursor.t = "throw" THEN "throw"
       ELSE IF Truthy(cursor) THEN "true" ELSE "false"

\* findIn(query, object, delimiter): "true", "false" or "throw".
findIn(query, object, delimiter) ==
    LET cursor == FindCursor(object, Split(query, OrElse(delimiter, Str(<<"/">>)).s))
    IN IF cursor.t = "throw" THEN "throw"
       ELSE IF Truthy(cursor) THEN "true" ELSE "false"

(***************************************************************************)
(* Bounds and input domains.                                               *)
(***************************************************************************)
\* Number of authorizeOrRedirect / getPermissions calls in one behaviour.
MaxCalls == 2
\* Number of configuration changes (setters, host assignments, navigations).
MaxSets == 1

\* Route identifiers (canonical path templates) of the route table.
RA == <<"/", "a">>
RB == <<"/", "b">>
RItem == <<"/", "item", "/", ":id">>
Routes == {RA, RB, RItem}
\* A route identifier the route table does not contain.
RUnknown == <<"/", "nope">>
\* An omitted (undefined) routePath argument.
NoArg == <<>>

\* The concrete path the location service reports when a route is active.
PathOf(r) == IF r = RItem THEN <<"/", "item", "/", "3">> ELSE r

\* Source identifiers (URLs).
S1 == <<"http://example.com/my-roles">>
S2 == <<"http://example.com/other">>
Urls == {S1, S2}

\* Permissions documents.
DocRoutes == Arr(<<Str(RA), Str(RItem)>>)
DocObj == Map(<<<<"canEdit">>>>, <<Arr(<<Num(1), Num(2), Num(3)>>)>>)
DocBlank == Str(<<>>)
\* What the transport may deliver.
ServerDocs == {DocRoutes, DocBlank}

\* Override strategies and function queries, by name.
FnNames == {"allow", "deny", "echo", "canEdit3"}
Fns == {Fn(f) : f \in FnNames}

\* The result of calling the named function with the four arguments of an
\* override, or Thrown when it throws:
\*   "allow"     function () { return true; }
\*   "deny"      function () { return false; }
\*   "echo"      function (query) { return query; }
\*   "canEdit3"  function (query, permissions) {
\*                   return permissions.canEdit.length === 3; }
Apply(name, query, permissions, route, routeParams) ==
    CASE name = "allow" -> Bool(TRUE)
      [] name = "deny" -> Bool(FALSE)
      [] name = "echo" -> query
      [] OTHER ->
            IF GetProp(permissions, <<"canEdit">>).t \in {"undef", "null"} THEN Thrown
            ELSE Bool(GetProp(GetProp(permissions, <<"canEdit">>), <<"length">>) = Num(3))

ApplyResNoQuery(name, query, permissions, route, routeParams) ==
    IF Apply(name, Undef, permissions, route, routeParams).t = "throw" THEN "throw"
    ELSE IF Truthy(Apply(name, Undef, permissions, route, routeParams)) THEN "true"
    ELSE "false"

\* !!method(query, permissions, route, routeParams)
ApplyRes(name, query, permissions, route, routeParams) ==
    IF Apply(name, query, permissions, route, routeParams).t = "throw" THEN "throw"
    ELSE IF Truthy(Apply(name, query, permissions, route, routeParams)) THEN "true"
    ELSE "false"

Descriptor(p, c, d) == [permissions |-> p, customAuthorization |-> c, deniedRoute |-> d]

\* The route table the router is configured with.
InitialRoutes ==
    (RA :> Descriptor(Str(S1), Undef, Str(<<"/", "denied">>)))
    @@ (RB :> Descriptor(Undef, Undef, Undef))
    @@ (RItem :> Descriptor(DocRoutes, Undef, Undef))

VARIABLES
    routes,               \* $route.routes: route identifier -> descriptor
    current,              \* $route.current.$$route.originalPath
    location,             \* $location.path()
    defaultPermissions,   \* var defaultPermissions
    customAuthorization,  \* var customAuthorization (global override)
    defaultAccess,        \* var defaultAccess
    permissionsCache,     \* permissionsCache: URL -> document
    calls,                \* the authorizeOrRedirect / getPermissions calls made
    httpLog,              \* URL -> number of transport requests issued
    nav,                  \* the calls made on the location service by redirect()
    lastAuth,             \* the last direct isAuthorized call: arguments, state read, outcome
    last,                 \* the last other direct call: operation, arguments, result
    nsets                 \* configuration changes made so far

vars == <<routes, current, location, defaultPermissions, customAuthorization,
          defaultAccess, permissionsCache, calls, httpLog, nav, lastAuth, last, nsets>>

(***************************************************************************)
(* The synchronous functions, as operators on the current state.           *)
(***************************************************************************)
routeExists(route) == route \in DOMAIN routes

getCurrentRoutePath == current

\* permissionsCache.get(key): undefined when the key is absent.
CacheGet(key) == IF key \in DOMAIN permissionsCache THEN permissionsCache[key] ELSE Undef

getPermissionsFromRouteOwnOnly(routePath) ==
    LET rp == IF routePath = NoArg THEN getCurrentRoutePath ELSE routePath
    IN IF ~routeExists(rp) THEN Thrown
       ELSE routes[rp].permissions

\* getPermissionsFromRoute(routePath): the value, or Thrown for an unknown route.
getPermissionsFromRoute(routePath) ==
    LET rp == IF routePath = NoArg THEN getCurrentRoutePath ELSE routePath
    IN IF ~routeExists(rp) THEN Thrown
       ELSE OrElse(routes[rp].permissions, defaultPermissions)

getPermissionsSyncNoCache(routePath) == getPermissionsFromRoute(routePath)

getPermissionsSync(routePath) ==
    LET routePermissions == getPermissionsFromRoute(routePath)
    IN IF routePermissions.t = "throw" THEN Thrown
       ELSE IF routePermissions.t = "str" THEN CacheGet(routePermissions.s)
       ELSE routePermissions

hasCustomAuthorization == customAuthorization.t = "fn"

\* hasCustomRouteAuthorization(routePath) for a known route.
hasCustomRouteAuthorization(routePath) ==
    routePath # NoArg /\ routes[routePath].customAuthorization.t = "fn"

getDefaultAccessInitial == FALSE

getDefaultAccess == defaultAccess

BoolRes(b) == IF b THEN "true" ELSE "false"

Outcome(res, via, perms) == [res |-> res, via |-> via, perms |-> perms]

OverrideGlobalFirst(rp) ==
    IF hasCustomAuthorization THEN "global"
    ELSE IF hasCustomRouteAuthorization(rp) THEN "route"
    ELSE "none"

\* Which override strategy isAuthorized consults for the known route rp:
\* the per-route one first, then the global one.
Override(rp) ==
    IF hasCustomRouteAuthorization(rp) THEN "route"
    ELSE IF hasCustomAuthorization THEN "global"
    ELSE "none"

StructuralNoArrayBranch(query, permissions, route) ==
    IF query.t = "str"
    THEN Outcome(findIn(query.s, permissions, Undef), "findIn", permissions)
    ELSE IF query.t = "fn"
    THEN Outcome(ApplyRes(query.s[1], query, permissions, route, Undef), "query", permissions)
    ELSE Outcome(BoolRes(getDefaultAccess), "default", permissions)

\* Branches 3 to 6 of isAuthorized, taken when no override is set.
Structural(query, permissions, route) ==
    IF query.t = "str" /\ permissions.t = "arr"
    THEN Outcome(BoolRes(IndexOf(permissions, query.s) # 0), "array", permissions)
    ELSE IF query.t = "str"
    THEN Outcome(findIn(query.s, permissions, Undef), "findIn", permissions)
    ELSE IF query.t = "fn"
    THEN Outcome(ApplyRes(query.s[1], query, permissions, route, Undef), "query", permissions)
    ELSE Outcome(BoolRes(getDefaultAccess), "default", permissions)

isAuthorizedNoFallback(query, routePath) ==
    LET rp == IF routePath = NoArg THEN getCurrentRoutePath ELSE routePath
    IN IF ~routeExists(rp) THEN Outcome("throw", "getRoute", Undef)
       ELSE
       LET route == routes[rp]
           permissions == getPermissionsSync(rp)
       IN IF Override(rp) = "route"
          THEN \* getCustomRouteAuthorization() is called without a route path
               IF ~hasCustomRouteAuthorization(getCurrentRoutePath)
               THEN Outcome("throw", "route", permissions)
               ELSE Outcome(ApplyRes(routes[getCurrentRoutePath].customAuthorization.s[1],
                                     query, permissions, route, Undef),
                            "route", permissions)
          ELSE IF Override(rp) = "global"
          THEN Outcome(ApplyRes(customAuthorization.s[1], query, permissions, route, Undef),
                       "global", permissions)
          ELSE Structural(query, permissions, route)

\* isAuthorized(query, routePath): the result ("true", "false" or "throw"),
\* the branch of the chain that produced it and the permissions it used.
isAuthorized(query, routePath) ==
    LET rp == IF routePath = NoArg THEN getCurrentRoutePath ELSE routePath
    IN IF ~routeExists(rp) THEN Outcome("throw", "getRoute", Undef)
       ELSE
       LET route == routes[rp]
           permissions == OrElse(getPermissionsSync(rp), EmptyMap)
       IN IF Override(rp) = "route"
          THEN \* getCustomRouteAuthorization() is called without a route path
               IF ~hasCustomRouteAuthorization(getCurrentRoutePath)
               THEN Outcome("throw", "route", permissions)
               ELSE Outcome(ApplyRes(routes[getCurrentRoutePath].customAuthorization.s[1],
                                     query, permissions, route, Undef),
                            "route", permissions)
          ELSE IF Override(rp) = "global"
          THEN Outcome(ApplyRes(customAuthorization.s[1], query, permissions, route, Undef),
                       "global", permissions)
          ELSE Structural(query, permissions, route)

getAccessDeniedRouteForDefaultOnly(routePath) == <<"/", "forbidden">>

\* getAccessDeniedRouteFor(routePath) for a known route.
getAccessDeniedRouteFor(routePath) ==
    LET route == routes[IF routePath = NoArg THEN getCurrentRoutePath ELSE routePath]
    IN IF Truthy(route.deniedRoute) THEN route.deniedRoute.s ELSE <<"/", "forbidden">>

(***************************************************************************)
(* The asynchronous calls.  A call is a record:                            *)
(*   kind   "gate" (authorizeOrRedirect) or "get" (getPermissions)         *)
(*   st     "loading": its transport request is in flight;                 *)
(*          gate: "loaded"/"failed": the permissions promise is settled    *)
(*          and the then-callback is queued; "allowed"/"denied": the       *)
(*          result is resolved true / rejected false; "hung": the callback *)
(*          threw and the result stays pending;                            *)
(*          get: "resolved"/"rejected"                                     *)
(*   path   the currentPath captured by the gate                           *)
(*   route  the route whose permissions were requested                     *)
(*   url    the URL requested from the transport, <<>> when none was       *)
(*   value  the value the permissions promise was resolved with            *)
(*   dec    the outcome of the gate's isAuthorized call                    *)
(*   decRoute  the current route when the gate decided                     *)
(***************************************************************************)
NoOutcome == Outcome("none", "none", Undef)

Call(kind, st, path, route, url, value) ==
    [kind |-> kind, st |-> st, path |-> path, route |-> route, url |-> url,
     value |-> value, error |-> Undef, dec |-> NoOutcome, decRoute |-> <<>>]

StartCallNoCache(kind, routePath) ==
    LET rp == IF routePath = NoArg THEN getCurrentRoutePath ELSE routePath
        routePermissions == getPermissionsFromRoute(routePath)
        permissions == getPermissionsSync(routePath)
        done == IF kind = "gate" THEN "loaded" ELSE "resolved"
    IN IF routePermissions.t = "str"
       THEN Call(kind, "loading", location, rp, routePermissions.s, Undef)
       ELSE Call(kind, done, location, rp, <<>>, permissions)

\* getPermissions(routePath) for a known route: the call it starts.  A cache
\* miss on a URL issues a transport request (retrievePermissions); anything
\* else is an already resolved promise ($q.when).
StartCall(kind, routePath) ==
    LET rp == IF routePath = NoArg THEN getCurrentRoutePath ELSE routePath
        routePermissions == getPermissionsFromRoute(routePath)
        permissions == getPermissionsSync(routePath)
        done == IF kind = "gate" THEN "loaded" ELSE "resolved"
    IN IF routePermissions.t = "str" /\ permissions.t = "undef"
       THEN Call(kind, "loading", location, rp, routePermissions.s, Undef)
       ELSE Call(kind, done, location, rp, <<>>, permissions)

IssueSingleFlight(call) ==
    IF call.st = "loading" /\ \A i \in 1..Len(calls) : ~(calls[i].st = "loading" /\ calls[i].url = call.url)
    THEN httpLog' = [httpLog EXCEPT ![call.url] = @ + 1]
    ELSE UNCHANGED httpLog

\* $http.get(url): one transport request per retrievePermissions call.
Issue(call) ==
    IF call.st = "loading"
    THEN httpLog' = [httpLog EXCEPT ![call.url] = @ + 1]
    ELSE UNCHANGED httpLog

config == <<routes, current, defaultPermissions, customAuthorization, defaultAccess>>

\* authorizeOrRedirect(), up to its return: capture the path, pre-load.
authorizeOrRedirect ==
    /\ Len(calls) < MaxCalls
    /\ calls' = Append(calls, StartCall("gate", NoArg))
    /\ Issue(StartCall("gate", NoArg))
    /\ UNCHANGED <<config, location, permissionsCache, nav, lastAuth, last, nsets>>

getPermissionsAlwaysRequests ==
    \E routePath \in Routes \cup {NoArg} :
        /\ Len(calls) < MaxCalls
        /\ calls' = Append(calls, StartCall("get", routePath))
        /\ httpLog' = [httpLog EXCEPT ![S1] = @ + 1]
        /\ UNCHANGED <<config, location, permissionsCache, nav, lastAuth, last, nsets>>

\* getPermissions(routePath) on a known route or on the current route.
getPermissions ==
    \E routePath \in Routes \cup {NoArg} :
        /\ Len(calls) < MaxCalls
        /\ calls' = Append(calls, StartCall("get", routePath))
        /\ Issue(StartCall("get", routePath))
        /\ UNCHANGED <<config, location, permissionsCache, nav, lastAuth, last, nsets>>

retrieveOkFirstWins ==
    \E i \in 1..Len(calls), doc \in ServerDocs :
        /\ calls[i].st = "loading"
        /\ permissionsCache' = permissionsCache @@ (calls[i].url :> doc)
        /\ calls' = [calls EXCEPT ![i].st = IF calls[i].kind = "gate" THEN "loaded" ELSE "resolved",
                                  ![i].value = doc]
        /\ UNCHANGED <<config, location, httpLog, nav, lastAuth, last, nsets>>

\* The success callback of retrievePermissions: cache the document, resolve.
retrieveOk ==
    \E i \in 1..Len(calls), doc \in ServerDocs :
        /\ calls[i].st = "loading"
        /\ permissionsCache' = (calls[i].url :> doc) @@ permissionsCache
        /\ calls' = [calls EXCEPT ![i].st = IF calls[i].kind = "gate" THEN "loaded" ELSE "resolved",
                                  ![i].value = doc]
        /\ UNCHANGED <<config, location, httpLog, nav, lastAuth, last, nsets>>

\* The failure details the transport reports (the response's status).
FailResponses == {Num(404), Num(500)}

retrieveFailSilent ==
    \E i \in 1..Len(calls), response \in FailResponses :
        /\ calls[i].st = "loading"
        /\ calls' = [calls EXCEPT ![i].st = IF calls[i].kind = "gate" THEN "failed" ELSE "rejected"]
        /\ UNCHANGED <<config, location, permissionsCache, httpLog, nav, lastAuth, last, nsets>>

\* The failure callback of retrievePermissions: reject with the response.
retrieveFail ==
    \E i \in 1..Len(calls), response \in FailResponses :
        /\ calls[i].st = "loading"
        /\ calls' = [calls EXCEPT ![i].st = IF calls[i].kind = "gate" THEN "failed" ELSE "rejected",
                                  ![i].error = response]
        /\ UNCHANGED <<config, location, permissionsCache, httpLog, nav, lastAuth, last, nsets>>

SettledOrLoading(call) == call.st \in {"loading", "loaded", "failed"}

\* The then-callbacks of the permissions promise run once it is settled.
Settled(call) == call.st \in {"loaded", "failed"}

RedirectedPathOnly(i) ==
    <<[op |-> "path", to |-> getAccessDeniedRouteFor(getCurrentRoutePath), by |-> i]>>

\* redirect(): set the path, replace the history entry.
Redirected(i) ==
    <<[op |-> "path", to |-> getAccessDeniedRouteFor(getCurrentRoutePath), by |-> i],
      [op |-> "replace", to |-> <<>>, by |-> i]>>

\* The then-callbacks of the gate: _authorizeOrRedirect().
_authorizeOrRedirect ==
    \E i \in 1..Len(calls) :
        LET out == isAuthorized(Str(calls[i].path), NoArg)
        IN /\ calls[i].kind = "gate"
           /\ Settled(calls[i])
           /\ calls' = [calls EXCEPT ![i].st = CASE out.res = "true" -> "allowed"
                                                 [] out.res = "false" -> "denied"
                                                 [] OTHER -> "hung",
                                     ![i].dec = out,
                                     ![i].decRoute = getCurrentRoutePath]
           /\ IF out.res = "false"
              THEN /\ nav' = nav \o Redirected(i)
                   /\ location' = getAccessDeniedRouteFor(getCurrentRoutePath)
              ELSE UNCHANGED <<nav, location>>
           /\ UNCHANGED <<config, permissionsCache, httpLog, lastAuth, last, nsets>>

clearPermissionsCacheOne ==
    \E u \in DOMAIN permissionsCache :
        /\ permissionsCache' = [k \in DOMAIN permissionsCache \ {u} |-> permissionsCache[k]]
        /\ UNCHANGED <<config, location, calls, httpLog, nav, lastAuth, last, nsets>>

clearPermissionsCache ==
    /\ permissionsCache # <<>>
    /\ permissionsCache' = <<>>
    /\ UNCHANGED <<config, location, calls, httpLog, nav, lastAuth, last, nsets>>

\* Values given to setPermissions and setDefaultPermissions.
PermValues == {Str(S1), Str(S2), DocObj}
\* Functions given to setCustomAuthorization and assigned to routes.
SetterFns == {Fn("allow"), Fn("deny"), Fn("canEdit3")}

setPermissions ==
    \E permissions \in PermValues, routePath \in Routes \cup {NoArg} :
        /\ nsets < MaxSets
        /\ nsets' = nsets + 1
        /\ routes' = [routes EXCEPT ![IF routePath = NoArg THEN getCurrentRoutePath ELSE routePath].permissions
                                        = permissions]
        /\ UNCHANGED <<current, location, defaultPermissions, customAuthorization, defaultAccess,
                       permissionsCache, calls, httpLog, nav, lastAuth, last>>

setDefaultPermissionsCached ==
    \E permissions \in PermValues :
        /\ nsets < MaxSets
        /\ nsets' = nsets + 1
        /\ defaultPermissions' = permissions
        /\ permissionsCache' = (S2 :> permissions) @@ permissionsCache
        /\ UNCHANGED <<routes, current, location, customAuthorization, defaultAccess,
                       calls, httpLog, nav, lastAuth, last>>

setDefaultPermissions ==
    \E permissions \in PermValues :
        /\ nsets < MaxSets
        /\ nsets' = nsets + 1
        /\ defaultPermissions' = permissions
        /\ UNCHANGED <<routes, current, location, customAuthorization, defaultAccess,
                       permissionsCache, calls, httpLog, nav, lastAuth, last>>

setCustomAuthorization ==
    \E callbackFunction \in SetterFns \cup {Null} :
        /\ nsets < MaxSets
        /\ nsets' = nsets + 1
        /\ customAuthorization' = callbackFunction
        /\ UNCHANGED <<routes, current, location, defaultPermissions, defaultAccess,
                       permissionsCache, calls, httpLog, nav, lastAuth, last>>

setDefaultAccess ==
    \E allowOrDeny \in {Bool(TRUE), Bool(FALSE), Undef, Num(1)} :
        /\ nsets < MaxSets
        /\ nsets' = nsets + 1
        /\ defaultAccess' = Truthy(allowOrDeny)
        /\ UNCHANGED <<routes, current, location, defaultPermissions, customAuthorization,
                       permissionsCache, calls, httpLog, nav, lastAuth, last>>

\* The host assigns a route's customAuthorization field.
SetRouteOverride ==
    \E r \in Routes, f \in SetterFns \cup {Null} :
        /\ nsets < MaxSets
        /\ nsets' = nsets + 1
        /\ routes' = [routes EXCEPT ![r].customAuthorization = f]
        /\ UNCHANGED <<current, location, defaultPermissions, customAuthorization, defaultAccess,
                       permissionsCache, calls, httpLog, nav, lastAuth, last>>

\* The router makes another route the current one.
Navigate ==
    \E r \in Routes :
        /\ nsets < MaxSets
        /\ nsets' = nsets + 1
        /\ r # current
        /\ current' = r
        /\ location' = PathOf(r)
        /\ UNCHANGED <<routes, defaultPermissions, customAuthorization, defaultAccess,
                       permissionsCache, calls, httpLog, nav, lastAuth, last>>

\* A direct isAuthorized(query, routePath) call, recorded with the state it read.
AuthRecord(query, routePath) ==
    [query |-> query, routePath |-> routePath, cur |-> getCurrentRoutePath,
     ownFn |-> IF routePath \in Routes THEN routes[routePath].customAuthorization ELSE Undef,
     curFn |-> routes[getCurrentRoutePath].customAuthorization,
     globalFn |-> customAuthorization,
     access |-> defaultAccess,
     sync |-> getPermissionsSync(routePath),
     out |-> isAuthorized(query, routePath)]

NoAuth ==
    [query |-> Undef, routePath |-> NoArg, cur |-> NoArg, ownFn |-> Undef, curFn |-> Undef,
     globalFn |-> Undef, access |-> FALSE, sync |-> Undef, out |-> NoOutcome]

\* Queries given to isAuthorized.
Queries ==
    {Str(RA), Str(<<"/", "c">>), Str(<<"canEdit", "/", "2">>), Num(1), Undef,
     Fn("echo"), Fn("deny")}

isAuthorizedCallFetching ==
    \E query \in Queries, routePath \in {NoArg, RA, RB} :
        /\ lastAuth' = AuthRecord(query, routePath)
        /\ IF getPermissionsFromRoute(routePath).t = "str" /\ getPermissionsSync(routePath).t = "undef"
           THEN permissionsCache' = (getPermissionsFromRoute(routePath).s :> DocRoutes) @@ permissionsCache
           ELSE UNCHANGED permissionsCache
        /\ UNCHANGED <<config, location, calls, httpLog, nav, last, nsets>>

isAuthorizedCall ==
    \E query \in Queries, routePath \in {NoArg, RA, RB} :
        /\ lastAuth' = AuthRecord(query, routePath)
        /\ UNCHANGED <<config, location, permissionsCache, calls, httpLog, nav, last, nsets>>

\* A direct call of another function of the public API: the operation, its
\* arguments, the value it returned (res) and how it ended (out: "true",
\* "false" for a boolean result, "ok" for another result, or the error it
\* threw); tick tells two successive calls apart.
Direct(op, routePath, query, object, delimiter, res, out) ==
    [op |-> op, routePath |-> routePath, query |-> query, object |-> object,
     delimiter |-> delimiter, res |-> res, out |-> out, tick |-> 1 - last.tick]

NoLast ==
    [op |-> "none", routePath |-> NoArg, query |-> <<>>, object |-> Undef,
     delimiter |-> Undef, res |-> Undef, out |-> "none", tick |-> 0]

\* The state after $get has run: nothing configured, an empty cache.
Init ==
    /\ routes = InitialRoutes
    /\ current \in Routes
    /\ location = PathOf(current)
    /\ defaultPermissions = Undef
    /\ customAuthorization = Undef
    /\ defaultAccess = FALSE
    /\ permissionsCache = <<>>
    /\ calls = <<>>
    /\ httpLog = [u \in Urls |-> 0]
    /\ nav = <<>>
    /\ lastAuth = NoAuth
    /\ last = NoLast
    /\ nsets = 0

Next ==
    \/ authorizeOrRedirect
    \/ getPermissions
    \/ retrieveOk
    \/ retrieveFail
    \/ _authorizeOrRedirect
    \/ clearPermissionsCache
    \/ setPermissions
    \/ setDefaultPermissions
    \/ setCustomAuthorization
    \/ setDefaultAccess
    \/ SetRouteOverride
    \/ Navigate

Spec == Init /\ [][Next]_vars

(***************************************************************************)
(* The decision chain on its own: the configuration and the cache are      *)
(* drawn from the values the setters, the host and the transport can put   *)
(* there, and isAuthorized is applied to them.                             *)
(***************************************************************************)
AuthPerms == {Undef, Str(S1), DocRoutes, DocObj, Arr(<<Num(1), Str(<<"/", "c">>)>>)}
AuthRouteFns == {Undef, Fn("allow"), Fn("deny"), Fn("canEdit3")}
AuthGlobalFns == {Undef, Null, Fn("allow"), Fn("deny"), Fn("echo")}

InitAuth ==
    /\ \E p \in AuthPerms, f \in AuthRouteFns, g \in {Undef, Fn("deny")} :
           routes = (RA :> Descriptor(p, f, Undef))
                    @@ (RB :> Descriptor(Undef, g, Undef))
                    @@ (RItem :> Descriptor(DocRoutes, Undef, Undef))
    /\ current \in {RA, RB}
    /\ location = PathOf(current)
    /\ defaultPermissions \in {Undef, DocObj}
    /\ customAuthorization \in AuthGlobalFns
    /\ defaultAccess \in BOOLEAN
    /\ permissionsCache \in {<<>>, (S1 :> DocRoutes), (S1 :> DocBlank)}
    /\ calls = <<>>
    /\ httpLog = [u \in Urls |-> 0]
    /\ nav = <<>>
    /\ lastAuth = NoAuth
    /\ last = NoLast
    /\ nsets = 0

NextAuth == isAuthorizedCall

SpecAuth == InitAuth /\ [][NextAuth]_vars

(***************************************************************************)
(* Properties of the decision chain, checked under SpecAuth.               *)
(***************************************************************************)
Called == lastAuth.out.res # "none"

\* C1: for the current route with both a per-route and a global override
\* set, isAuthorized(query) returns the truthiness of what the per-route
\* function returns, whatever the global function would return, and the
\* global function is not the one consulted.
C1_PerRouteOverrideWins ==
    (/\ Called
     /\ lastAuth.routePath = NoArg
     /\ lastAuth.curFn.t = "fn"
     /\ lastAuth.globalFn.t = "fn")
    => /\ lastAuth.out.via = "route"
       /\ lastAuth.out.res = ApplyRes(lastAuth.curFn.s[1], lastAuth.query,
                                      OrElse(lastAuth.sync, EmptyMap), Undef, Undef)

\* The per-route override denies where the global override would allow.
C1_Witness ==
    /\ Called
    /\ lastAuth.routePath = NoArg
    /\ lastAuth.curFn = Fn("deny")
    /\ lastAuth.globalFn = Fn("allow")
    /\ lastAuth.out.res = "false"

\* C10: with no override, a string query and permissions that are a
\* sequence, isAuthorized(query) is true exactly when some element of the
\* sequence is a string equal to the whole query; the query is not split.
C10_ArrayMembership ==
    (/\ Called
     /\ lastAuth.routePath = NoArg
     /\ lastAuth.curFn.t # "fn"
     /\ lastAuth.globalFn.t # "fn"
     /\ lastAuth.query.t = "str"
     /\ lastAuth.sync.t = "arr")
    => (lastAuth.out.res = "true"
        <=> \E k \in 1..Len(lastAuth.sync.kids) : lastAuth.sync.kids[k] = lastAuth.query)

\* ['/a', '/item/:id'] contains '/a', which holds a '/'.
C10_Witness ==
    /\ Called
    /\ lastAuth.routePath = NoArg
    /\ lastAuth.curFn.t # "fn"
    /\ lastAuth.globalFn.t # "fn"
    /\ lastAuth.sync = DocRoutes
    /\ lastAuth.query = Str(RA)
    /\ lastAuth.out.res = "true"

(***************************************************************************)
(* Properties of the navigation gate and of the fetch layer, checked under *)
(* Spec.                                                                   *)
(***************************************************************************)
Gates == {i \in 1..Len(calls) : calls[i].kind = "gate"}
Decided(i) == calls[i].st \in {"allowed", "denied", "hung"}
\* The call issued a transport request and it succeeded / failed.
FetchOk(i) == calls[i].url # <<>> /\ calls[i].value.t # "undef"
FetchFailed(i) == calls[i].url # <<>> /\ calls[i].st # "loading" /\ calls[i].value.t = "undef"
\* The step is the decision (the then-callback) of gate call i.
Decides(i) == calls[i].kind = "gate" /\ ~Decided(i) /\ calls'[i].st \in {"allowed", "denied", "hung"}
\* What redirect() did on behalf of call i.
NavBy(i) == SelectSeq(nav, LAMBDA e : e.by = i)

\* C2: when the pre-load fetch failed and no override is set, the gate
\* resolves true if the Default Access Policy is allow and is rejected with
\* false if it is deny.
C2_DefaultPolicyGovernsFailedFetch ==
    [][\A i \in 1..Len(calls) :
          (Decides(i) /\ calls[i].st = "failed" /\ Override(getCurrentRoutePath) = "none")
          => calls'[i].st = IF defaultAccess THEN "allowed" ELSE "denied"]_vars

\* C3: every authorizeOrRedirect call whose permissions promise is settled
\* eventually settles its own result, resolved true or rejected false.
C3_GateSettles ==
    \A i \in 1..MaxCalls :
        (i <= Len(calls) /\ calls[i].kind = "gate" /\ Settled(calls[i]))
        ~> (i <= Len(calls) /\ calls[i].st \in {"allowed", "denied"})

\* C4: a gate call that decides 'authorized' resolves true and issues no
\* redirect; one that decides 'not authorized' is rejected with false and
\* issues exactly one redirect, the path set and then the history entry
\* replaced; a call that has not denied has issued nothing.
C4_RedirectIffDenied ==
    \A i \in Gates :
        /\ (calls[i].dec.res = "true") <=> (calls[i].st = "allowed")
        /\ (calls[i].dec.res = "false") <=> (calls[i].st = "denied")
        /\ calls[i].st = "denied" =>
              /\ Len(NavBy(i)) = 2
              /\ \E k \in 1..(Len(nav) - 1) :
                    /\ nav[k].by = i /\ nav[k].op = "path"
                    /\ nav[k + 1].by = i /\ nav[k + 1].op = "replace"
        /\ calls[i].st # "denied" => NavBy(i) = <<>>

\* One call was allowed, another was denied after its fetch failed.
C4_Witness ==
    \E i, j \in Gates :
        /\ calls[i].st = "allowed" /\ NavBy(i) = <<>>
        /\ calls[j].st = "denied" /\ FetchFailed(j) /\ Len(NavBy(j)) = 2

\* C5: when the gate denies, the path it redirects to is the deniedRoute
\* field of the route it decided on (the current route at the decision)
\* when that field is set, and '/forbidden' when it is not.
C5_DenialTarget ==
    [][\A i \in 1..Len(calls) :
          (Decides(i) /\ calls'[i].st = "denied")
          => /\ Len(nav') = Len(nav) + 2
             /\ nav'[Len(nav) + 1].op = "path"
             /\ nav'[Len(nav) + 1].to =
                    IF routes[current].deniedRoute.t = "str" /\ routes[current].deniedRoute.s # <<>>
                    THEN routes[current].deniedRoute.s
                    ELSE <<"/", "forbidden">>
             /\ location' = nav'[Len(nav) + 1].to]_vars

\* One denial went to a route's own target, another to the default one.
C5_Witness ==
    \E i, j \in Gates :
        /\ calls[i].st = "denied" /\ NavBy(i)[1].to = <<"/", "denied">>
        /\ calls[j].st = "denied" /\ NavBy(j)[1].to = <<"/", "forbidden">>

\* The step starts a call (getPermissions or authorizeOrRedirect).
Starts == Len(calls') = Len(calls) + 1
Started == calls'[Len(calls')]
\* The source identifier the started call's route resolves to, if any.
StartedSource == getPermissionsFromRoute(Started.route)

\* C6 as stated: once a document is cached for a source, getPermissions on
\* a route resolving to that source yields the cached document without a
\* transport request, and that document stays the same until the cache is
\* cleared.
C6_SameDocumentUntilClear ==
    [][/\ \A u \in DOMAIN permissionsCache :
             permissionsCache' # <<>> => (u \in DOMAIN permissionsCache' /\ permissionsCache'[u] = permissionsCache[u])
       /\ (Starts /\ Started.kind = "get" /\ StartedSource.t = "str"
              /\ StartedSource.s \in DOMAIN permissionsCache)
          => /\ Started.st = "resolved"
             /\ Started.value = permissionsCache[StartedSource.s]
             /\ httpLog' = httpLog]_vars

\* C6 as amended: getPermissions on a cached source yields the document
\* cached at that moment without a transport request; the cached document
\* changes only by a cache clear or by the completion of a fetch for the
\* same source that was in flight.
C6_CachedUntilClearOrLateFetch ==
    [][/\ \A u \in DOMAIN permissionsCache :
             \/ permissionsCache' = <<>>
             \/ u \in DOMAIN permissionsCache' /\ permissionsCache'[u] = permissionsCache[u]
             \/ \E i \in 1..Len(calls) :
                   /\ calls[i].st = "loading" /\ calls[i].url = u
                   /\ calls'[i].st # "loading"
                   /\ u \in DOMAIN permissionsCache' /\ permissionsCache'[u] = calls'[i].value
       /\ (Starts /\ Started.kind = "get" /\ StartedSource.t = "str"
              /\ StartedSource.s \in DOMAIN permissionsCache)
          => /\ Started.st = "resolved"
             /\ Started.value = permissionsCache[StartedSource.s]
             /\ httpLog' = httpLog]_vars

\* A route without own permissions was served from the cache entry of the
\* default source, fetched once by another call.
C6_Witness ==
    \E i, j \in 1..Len(calls) :
        /\ defaultPermissions = Str(S1)
        /\ FetchOk(i) /\ calls[i].url = S1
        /\ calls[j].kind = "get" /\ calls[j].route = RB /\ calls[j].url = <<>>
        /\ calls[j].value = calls[i].value
        /\ httpLog[S1] = 1

\* C7 as stated: at most one fetch is in flight per source identifier.
C7_SingleFlight ==
    \A i, j \in 1..Len(calls) :
        (i # j /\ calls[i].st = "loading" /\ calls[j].st = "loading") => calls[i].url # calls[j].url

\* C7 as amended: every getPermissions or authorizeOrRedirect call on a route
\* whose source is not cached issues one transport request of its own, also
\* while another fetch for that source is in flight; a call issues no
\* request only when the source is cached or the permissions are static.
C7_OneRequestPerUncachedCall ==
    [][Starts =>
          \A u \in Urls :
              httpLog'[u] = httpLog[u] +
                  (IF StartedSource.t = "str" /\ StartedSource.s = u /\ u \notin DOMAIN permissionsCache
                   THEN 1 ELSE 0)]_vars

\* Two requests for the same source are in flight.
C7_Witness ==
    \E i, j \in 1..Len(calls) :
        /\ i # j
        /\ calls[i].st = "loading" /\ calls[j].st = "loading"
        /\ calls[i].url = S1 /\ calls[j].url = S1
        /\ httpLog[S1] = 2

C9_DecidesOnCapturedRoute ==
    \A i \in Gates : Decided(i) => calls[i].decRoute = calls[i].route

(***************************************************************************)
(* The gate under the scheduling of the promise library: a then-callback   *)
(* that is queued is run.                                                  *)
(***************************************************************************)
SpecLive == Init /\ [][Next]_vars /\ WF_vars(_authorizeOrRedirect)

(***************************************************************************)
(* The matcher on its own: findIn applied to documents, and isAuthorized   *)
(* applied to a route whose static permissions are one of them.            *)
(***************************************************************************)
\* {GET: {page: [1, 2, 3], other: [1, 'a/b']}, PUT: {page: [1]}}
DocTest ==
    Map(<<<<"GET">>, <<"PUT">>>>,
        <<Map(<<<<"page">>, <<"other">>>>,
              <<Arr(<<Num(1), Num(2), Num(3)>>), Arr(<<Num(1), Str(<<"a", "/", "b">>)>>)>>),
          Map(<<<<"page">>>>, <<Arr(<<Num(1)>>)>>)>>)
\* {canEdit: [1, 2]}
DocEdit12 == Map(<<<<"canEdit">>>>, <<Arr(<<Num(1), Num(2)>>)>>)
\* {canEdit: null}
DocNull == Map(<<<<"canEdit">>>>, <<Null>>)
FindDocs == {DocTest, DocEdit12, DocObj, DocNull, EmptyMap}

FindQueries ==
    {<<"GET", "/", "page", "/", "1">>, <<"GET", "/", "page", "/", "4">>,
     <<"PUT", "/", "page">>, <<"PUT", "/", ".", "/", ".", "/", ".">>,
     <<"GET", "#", "other", "#", "a", "/", "b">>, <<"GET", "#", "page", "/", "1">>,
     <<"canEdit", "/", "2">>, <<"canEdit", "/", "3">>, <<"canEdit", "/", "5">>,
     <<"canEdit", "/", "length">>, <<"constructor">>}
Delimiters == {Undef, Str(<<"#">>)}

\* findIn(query, object, delimiter), called directly.
findInCall ==
    \E query \in FindQueries, object \in FindDocs, delimiter \in Delimiters :
        /\ last' = Direct("findIn", NoArg, query, object, delimiter, Undef,
                          findIn(query, object, delimiter))
        /\ UNCHANGED <<config, location, permissionsCache, calls, httpLog, nav, lastAuth, nsets>>

\* isAuthorized(query) on the current route, for the queries of the matcher.
isAuthorizedFind ==
    \E query \in {<<"canEdit", "/", "2">>, <<"canEdit", "/", "3">>, <<"canEdit", "/", "5">>} :
        /\ lastAuth' = AuthRecord(Str(query), NoArg)
        /\ UNCHANGED <<config, location, permissionsCache, calls, httpLog, nav, last, nsets>>

InitFind ==
    /\ \E doc \in FindDocs : routes = [InitialRoutes EXCEPT ![RB].permissions = doc]
    /\ current = RB
    /\ location = PathOf(current)
    /\ defaultPermissions = Undef
    /\ customAuthorization = Undef
    /\ defaultAccess = FALSE
    /\ permissionsCache = <<>>
    /\ calls = <<>>
    /\ httpLog = [u \in Urls |-> 0]
    /\ nav = <<>>
    /\ lastAuth = NoAuth
    /\ last = NoLast
    /\ nsets = 0

NextFind == findInCall \/ isAuthorizedFind

SpecFind == InitFind /\ [][NextFind]_vars

(***************************************************************************)
(* The Default Access Policy: setDefaultAccess any number of times, with   *)
(* direct isAuthorized calls in between.                                   *)
(***************************************************************************)
\* setDefaultAccess(allowOrDeny), called directly.
setDefaultAccessCall ==
    \E allowOrDeny \in {Bool(TRUE), Bool(FALSE), Undef, Num(1)} :
        /\ defaultAccess' = Truthy(allowOrDeny)
        /\ last' = Direct("setDefaultAccess", NoArg, <<>>, allowOrDeny, Undef, Undef, "ok")
        /\ UNCHANGED <<routes, current, location, defaultPermissions, customAuthorization,
                       permissionsCache, calls, httpLog, nav, lastAuth, nsets>>

InitPolicy ==
    /\ routes = InitialRoutes
    /\ current \in Routes
    /\ location = PathOf(current)
    /\ defaultPermissions = Undef
    /\ customAuthorization = Undef
    /\ defaultAccess = FALSE
    /\ permissionsCache \in {<<>>, (S1 :> DocRoutes)}
    /\ calls = <<>>
    /\ httpLog = [u \in Urls |-> 0]
    /\ nav = <<>>
    /\ lastAuth = NoAuth
    /\ last = NoLast
    /\ nsets = 0

NextPolicy ==
    \/ setDefaultAccessCall
    \/ isAuthorizedCall
    \/ setCustomAuthorization
    \/ setDefaultPermissions

SpecPolicy == InitPolicy /\ [][NextPolicy]_vars

\* The policy as the setDefaultAccess calls so far leave it: deny at first,
\* then the last argument coerced to boolean.
PolicySet == IF last.op = "setDefaultAccess" THEN Truthy(last.object) ELSE FALSE

\* C14: the Default Access Policy is deny initially; isAuthorized() with no
\* query, no permissions for the current route, no default permissions and
\* no override returns the value the last setDefaultAccess call set
\* (coerced to boolean); setDefaultAccess changes neither the cache nor the
\* transport.
C14_DefaultAccessPolicy ==
    [][/\ (last.op = "none" => ~defaultAccess)
       /\ (/\ lastAuth' # lastAuth
           /\ lastAuth'.query = Undef /\ lastAuth'.routePath = NoArg
           /\ routes[current].permissions = Undef /\ defaultPermissions = Undef
           /\ lastAuth'.curFn.t # "fn" /\ lastAuth'.globalFn.t # "fn")
          => lastAuth'.out.res = BoolRes(PolicySet)
       /\ last'.tick # last.tick
          => (/\ last'.op = "setDefaultAccess"
              /\ permissionsCache' = permissionsCache
              /\ httpLog' = httpLog /\ calls' = calls)]_vars

\* The policy was set to allow with the truthy argument 1 and isAuthorized()
\* returned true on a route without permissions.
C14_Witness ==
    /\ last.op = "setDefaultAccess" /\ last.object = Num(1)
    /\ permissionsCache # <<>>
    /\ Called /\ lastAuth.query = Undef /\ lastAuth.routePath = NoArg
    /\ lastAuth.sync = Undef
    /\ lastAuth.curFn.t # "fn" /\ lastAuth.globalFn.t # "fn"
    /\ lastAuth.access /\ lastAuth.out.res = "true"

\* The digit a one-character token stands for, as an integer element.
TokenNum(token) == Num(DigitVal(token[1]))

\* C11: with no override and permissions that are a mapping whose key K
\* holds a sequence of integers, isAuthorized('K/n') is true exactly when
\* the sequence contains the integer n.
C11_IntegerMembership ==
    (/\ Called
     /\ lastAuth.curFn.t # "fn" /\ lastAuth.globalFn.t # "fn"
     /\ lastAuth.sync.t = "map"
     /\ KeyPos(lastAuth.sync, <<"canEdit">>) # 0)
    => LET seq == lastAuth.sync.kids[KeyPos(lastAuth.sync, <<"canEdit">>)]
           n == TokenNum(<<lastAuth.query.s[3]>>)
       IN (seq.t = "arr" /\ \A k \in 1..Len(seq.kids) : seq.kids[k].t = "num")
          => (lastAuth.out.res = "true" <=> \E k \in 1..Len(seq.kids) : seq.kids[k] = n)

\* The cursor of a lookup that advances only through a mapping's own keys
\* and a sequence's elements; Thrown stands for 'not found'.
RECURSIVE OwnCursor(_, _)
OwnCursor(cursor, tokens) ==
    IF tokens = <<>> THEN cursor
    ELSE IF cursor.t = "map" /\ KeyPos(cursor, Head(tokens)) # 0
         THEN OwnCursor(cursor.kids[KeyPos(cursor, Head(tokens))], Tail(tokens))
    ELSE IF cursor.t = "arr" /\ IndexOf(cursor, Head(tokens)) # 0
         THEN OwnCursor(cursor.kids[IndexOf(cursor, Head(tokens))], Tail(tokens))
    ELSE Thrown

FoundFindIn == last.op = "findIn"
LastTokens == Split(last.query, OrElse(last.delimiter, Str(<<"/">>)).s)

\* C12: the results of the unit test on its document, for the default
\* delimiter and for '#': a token holding the other character is matched
\* whole.
C12_TestDocument ==
    (FoundFindIn /\ last.object = DocTest)
    => /\ (last.delimiter = Undef /\ last.query = <<"GET", "/", "page", "/", "1">>) => last.out = "true"
       /\ (last.delimiter = Undef /\ last.query = <<"GET", "/", "page", "/", "4">>) => last.out = "false"
       /\ (last.delimiter = Undef /\ last.query = <<"PUT", "/", "page">>) => last.out = "true"
       /\ (last.delimiter = Undef /\ last.query = <<"PUT", "/", ".", "/", ".", "/", ".">>) => last.out = "false"
       /\ (last.delimiter = Str(<<"#">>) /\ last.query = <<"GET", "#", "other", "#", "a", "/", "b">>)
             => last.out = "true"
       /\ (last.delimiter = Str(<<"#">>) /\ last.query = <<"GET", "#", "page", "/", "1">>) => last.out = "false"

\* 'GET#other#a/b' was found with the delimiter '#'.
C12_Witness ==
    /\ FoundFindIn /\ last.object = DocTest /\ last.delimiter = Str(<<"#">>)
    /\ last.query = <<"GET", "#", "other", "#", "a", "/", "b">>
    /\ last.out = "true"

\* C13: findIn is false whenever some token, when it is reached, is neither
\* an own key of the mapping under the cursor nor an element of the
\* sequence under the cursor; in particular it is false on {}.
C13_OnlyKeysAndElements ==
    FoundFindIn
    => /\ OwnCursor(last.object, LastTokens).t = "throw" => last.out = "false"
       /\ last.object = EmptyMap => last.out = "false"


\* C15: with no override, the gate resolves true for every current route
\* whose resolved permissions are a sequence containing the route's path
\* template, also when the template has parameters ('/item/:id' reached
\* through '/item/3').
C15_TemplateInSequenceAllows ==
    [][\A i \in 1..Len(calls) :
          (/\ Decides(i)
           /\ Override(getCurrentRoutePath) = "none"
           /\ getPermissionsSync(getCurrentRoutePath).t = "arr"
           /\ IndexOf(getPermissionsSync(getCurrentRoutePath), getCurrentRoutePath) # 0)
          => calls'[i].st = "allowed"]_vars

\* C16: for a known route R with a per-route override, current or not,
\* isAuthorized(q, R) raises no error of its own and returns the truthiness
\* of R's own override applied to (q, R's permissions or {}, R's descriptor,
\* the route parameters).
C16_OwnOverrideOfNamedRoute ==
    (Called /\ lastAuth.routePath \in Routes /\ lastAuth.ownFn.t = "fn")
    => lastAuth.out.res = ApplyRes(lastAuth.ownFn.s[1], lastAuth.query,
                                   OrElse(lastAuth.sync, EmptyMap),
                                   routes[lastAuth.routePath], Undef)

(***************************************************************************)
(* The route-scoped operations of the public API called directly, with a   *)
(* known route, no route or an unknown route.                              *)
(***************************************************************************)
RouteErrorOnUse(routePath) == IF routeExists(routePath) THEN "ok" ELSE "TypeError"

\* getRoute(routePath): "ok", or the error it throws for an unknown route.
RouteError(routePath) == IF routeExists(routePath) THEN "ok" ELSE "route-not-found"

\* routePath || getCurrentRoutePath()
RouteArg(routePath) == IF routePath = NoArg THEN getCurrentRoutePath ELSE routePath

ApiRoutes == {NoArg, RA, RB, RUnknown}

\* getPermissionsFromRoute(routePath), called directly.
getPermissionsFromRouteCall ==
    \E routePath \in ApiRoutes :
        /\ last' = IF RouteError(RouteArg(routePath)) # "ok"
                   THEN Direct("getPermissionsFromRoute", routePath, <<>>, Undef, Undef, Undef,
                               RouteError(RouteArg(routePath)))
                   ELSE Direct("getPermissionsFromRoute", routePath, <<>>, Undef, Undef,
                               getPermissionsFromRoute(routePath), "ok")
        /\ UNCHANGED <<config, location, permissionsCache, calls, httpLog, nav, lastAuth, nsets>>

\* getPermissionsSync(routePath), called directly.
getPermissionsSyncCall ==
    \E routePath \in ApiRoutes :
        /\ last' = IF RouteError(RouteArg(routePath)) # "ok"
                   THEN Direct("getPermissionsSync", routePath, <<>>, Undef, Undef, Undef,
                               RouteError(RouteArg(routePath)))
                   ELSE Direct("getPermissionsSync", routePath, <<>>, Undef, Undef,
                               getPermissionsSync(routePath), "ok")
        /\ UNCHANGED <<config, location, permissionsCache, calls, httpLog, nav, lastAuth, nsets>>

\* getPermissions(routePath), called directly: getRoute throws before
\* anything else happens, otherwise the call starts as in getPermissions.
getPermissionsCall ==
    \E routePath \in ApiRoutes :
        IF RouteError(RouteArg(routePath)) # "ok"
        THEN /\ last' = Direct("getPermissions", routePath, <<>>, Undef, Undef, Undef,
                               RouteError(RouteArg(routePath)))
             /\ UNCHANGED <<config, location, permissionsCache, calls, httpLog, nav, lastAuth, nsets>>
        ELSE /\ Len(calls) < MaxCalls
             /\ calls' = Append(calls, StartCall("get", routePath))
             /\ Issue(StartCall("get", routePath))
             /\ last' = Direct("getPermissions", routePath, <<>>, Undef, Undef, Undef, "ok")
             /\ UNCHANGED <<config, location, permissionsCache, nav, lastAuth, nsets>>

\* isAuthorized(query, routePath), called directly.
isAuthorizedRouteCall ==
    \E query \in {Undef, Str(RA)}, routePath \in ApiRoutes :
        /\ last' = IF RouteError(RouteArg(routePath)) # "ok"
                   THEN Direct("isAuthorized", routePath, <<>>, query, Undef, Undef,
                               RouteError(RouteArg(routePath)))
                   ELSE Direct("isAuthorized", routePath, <<>>, query, Undef, Undef,
                               isAuthorized(query, routePath).res)
        /\ UNCHANGED <<config, location, permissionsCache, calls, httpLog, nav, lastAuth, nsets>>

setPermissionsWithCurrentOnly(values, routePaths) ==
    \E permissions \in values, routePath \in routePaths :
        IF RouteError(RouteArg(routePath)) # "ok"
        THEN /\ last' = Direct("setPermissions", routePath, <<>>, permissions, Undef, Undef,
                               RouteError(RouteArg(routePath)))
             /\ UNCHANGED <<config, location, permissionsCache, calls, httpLog, nav, lastAuth, nsets>>
        ELSE /\ nsets < MaxSets
             /\ nsets' = nsets + 1
             /\ routes' = [routes EXCEPT ![getCurrentRoutePath].permissions = permissions]
             /\ last' = Direct("setPermissions", routePath, <<>>, permissions, Undef, Undef, "ok")
             /\ UNCHANGED <<current, location, defaultPermissions, customAuthorization,
                            defaultAccess, permissionsCache, calls, httpLog, nav, lastAuth>>

\* setPermissions(permissions, routePath), called directly with one of the
\* given values and route arguments.
setPermissionsWith(values, routePaths) ==
    \E permissions \in values, routePath \in routePaths :
        IF RouteError(RouteArg(routePath)) # "ok"
        THEN /\ last' = Direct("setPermissions", routePath, <<>>, permissions, Undef, Undef,
                               RouteError(RouteArg(routePath)))
             /\ UNCHANGED <<config, location, permissionsCache, calls, httpLog, nav, lastAuth, nsets>>
        ELSE /\ nsets < MaxSets
             /\ nsets' = nsets + 1
             /\ routes' = [routes EXCEPT ![RouteArg(routePath)].permissions = permissions]
             /\ last' = Direct("setPermissions", routePath, <<>>, permissions, Undef, Undef, "ok")
             /\ UNCHANGED <<current, location, defaultPermissions, customAuthorization,
                            defaultAccess, permissionsCache, calls, httpLog, nav, lastAuth>>

setPermissionsCall == setPermissionsWith({DocObj, DocBlank}, ApiRoutes)

\* setAccessDeniedRouteFor(deniedRoute, routePath), called directly: for a
\* known route the route table is indexed with the route object, which is
\* never a key of it, and the second error is thrown.
setAccessDeniedRouteForCall ==
    \E deniedRoute \in {Str(<<"/", "denied">>)}, routePath \in ApiRoutes :
        /\ last' = IF RouteError(RouteArg(routePath)) # "ok"
                   THEN Direct("setAccessDeniedRouteFor", routePath, <<>>, deniedRoute, Undef, Undef,
                               RouteError(RouteArg(routePath)))
                   ELSE Direct("setAccessDeniedRouteFor", routePath, <<>>, deniedRoute, Undef, Undef,
                               "unknown-route-object")
        /\ UNCHANGED <<config, location, permissionsCache, calls, httpLog, nav, lastAuth, nsets>>

ApiCaches == {<<>>, (S1 :> DocRoutes), (S1 :> DocBlank), (S2 :> DocRoutes)}

\* States after some configuration and some completed fetches.
InitApi ==
    /\ routes = InitialRoutes
    /\ current \in {RA, RB}
    /\ location = PathOf(current)
    /\ defaultPermissions \in {Undef, Str(S2), DocObj}
    /\ customAuthorization = Undef
    /\ defaultAccess = FALSE
    /\ permissionsCache \in ApiCaches
    /\ calls = <<>>
    /\ httpLog = [u \in Urls |-> IF u \in DOMAIN permissionsCache THEN 1 ELSE 0]
    /\ nav = <<>>
    /\ lastAuth = NoAuth
    /\ last = NoLast
    /\ nsets = 0

NextApi ==
    \/ getPermissionsFromRouteCall
    \/ getPermissionsSyncCall
    \/ getPermissionsCall
    \/ isAuthorizedRouteCall
    \/ setPermissionsCall
    \/ setAccessDeniedRouteForCall

SpecApi == InitApi /\ [][NextApi]_vars

RouteScoped ==
    {"getPermissionsFromRoute", "getPermissionsSync", "getPermissions", "isAuthorized",
     "setPermissions", "setAccessDeniedRouteFor"}

C19_SyncReadsCacheOrStatic ==
    [][(last'.tick # last.tick /\ last'.op = "getPermissionsSync" /\ last'.out = "ok")
       => LET own == routes[RouteArg(last'.routePath)].permissions
              resolved == IF Truthy(own) THEN own ELSE defaultPermissions
          IN /\ last'.res = IF resolved.t # "str" THEN resolved
                            ELSE IF resolved.s \in DOMAIN permissionsCache
                                 THEN permissionsCache[resolved.s]
                                 ELSE Undef
             /\ httpLog' = httpLog /\ calls' = calls
             /\ permissionsCache' = permissionsCache]_vars

\* getPermissionsSync returned the document cached under the default source
\* identifier for a route without permissions of its own.
C19_Witness ==
    /\ last.op = "getPermissionsSync" /\ last.routePath = RB
    /\ routes[RB].permissions = Undef /\ defaultPermissions = Str(S2)
    /\ permissionsCache = (S2 :> DocRoutes)
    /\ last.res = DocRoutes

\* C18: getPermissionsFromRoute(R) is R's own permissions when present and
\* truthy, else the default permissions; with a source identifier as the
\* default, getPermissions for a route without own permissions fetches that
\* identifier, and once the fetch has succeeded isAuthorized on that route
\* sees the fetched document.
C18_OwnElseDefaultPermissions ==
    [][/\ \A R \in Routes :
              getPermissionsFromRoute(R) = IF Truthy(routes[R].permissions)
                                           THEN routes[R].permissions
                                           ELSE defaultPermissions
       /\ (/\ Starts /\ Started.kind = "get"
           /\ ~Truthy(routes[Started.route].permissions)
           /\ defaultPermissions.t = "str"
           /\ defaultPermissions.s \notin DOMAIN permissionsCache)
          => /\ Started.st = "loading" /\ Started.url = defaultPermissions.s
             /\ httpLog' = [httpLog EXCEPT ![defaultPermissions.s] = @ + 1]
       /\ \A i \in 1..Len(calls) :
              (/\ calls[i].st = "loading" /\ calls'[i].st \in {"loaded", "resolved"}
               /\ ~Truthy(routes[calls[i].route].permissions)
               /\ defaultPermissions = Str(calls[i].url)
               /\ Override(calls[i].route) = "none")
              => isAuthorized(Undef, calls[i].route)'.perms = OrElse(calls'[i].value, EmptyMap)]_vars

\* A getPermissions call on '/b', which has no permissions of its own,
\* fetched the default source identifier and the document is what
\* getPermissionsSync yields for '/b'.
C18_Witness ==
    \E i \in 1..Len(calls) :
        /\ calls[i].kind = "get" /\ calls[i].route = RB /\ calls[i].st = "resolved"
        /\ routes[RB].permissions = Undef
        /\ defaultPermissions = Str(calls[i].url)
        /\ httpLog[calls[i].url] = 1
        /\ calls[i].value = DocRoutes
        /\ getPermissionsSync(RB) = DocRoutes

\* C20: when the fetch for an uncached source identifier fails, the
\* getPermissions call rejects with the failure detail of the transport, the
\* cache is left as it was, and a later getPermissions call for the same,
\* still uncached source issues a new transport request.
C20_FailedFetchRejectsUncached ==
    [][/\ \A i \in 1..Len(calls) :
              (calls[i].st = "loading" /\ calls[i].kind = "get" /\ calls'[i].value.t = "undef"
               /\ calls'[i].st # "loading")
              => /\ calls'[i].st = "rejected"
                 /\ calls'[i].error \in FailResponses
                 /\ permissionsCache' = permissionsCache
       /\ (/\ Starts /\ Started.kind = "get"
           /\ StartedSource.t = "str"
           /\ StartedSource.s \notin DOMAIN permissionsCache
           /\ \E i \in 1..Len(calls) : FetchFailed(i) /\ calls[i].url = StartedSource.s)
          => /\ Started.st = "loading" /\ Started.url = StartedSource.s
             /\ httpLog' = [httpLog EXCEPT ![StartedSource.s] = @ + 1]]_vars

\* A getPermissions call was rejected with the status 404, the cache is
\* empty, and a second call for the same source has issued a second request.
C20_Witness ==
    \E i, j \in 1..Len(calls) :
        /\ i < j
        /\ calls[i].kind = "get" /\ calls[i].st = "rejected" /\ calls[i].error = Num(404)
        /\ calls[j].kind = "get" /\ calls[j].st = "loading" /\ calls[j].url = calls[i].url
        /\ permissionsCache = <<>>
        /\ httpLog[calls[i].url] = 2

\* The step completes a fetch of call i successfully.
Completes(i) == calls[i].st = "loading" /\ calls'[i].st \in {"loaded", "resolved"}

\* C21: clearPermissionsCache removes every cache entry; an entry is removed
\* or replaced only by a clear or by a completed fetch for the same key;
\* once the cache is cleared getPermissionsSync is undefined for every route
\* with a source identifier and the next getPermissions call on such a
\* route issues a transport request.
C21_ClearRemovesAll ==
    [][/\ (\E u \in DOMAIN permissionsCache : u \notin DOMAIN permissionsCache')
          => permissionsCache' = <<>>
       /\ \A u \in DOMAIN permissionsCache \cap DOMAIN permissionsCache' :
              permissionsCache'[u] # permissionsCache[u]
              => \E i \in 1..Len(calls) :
                     Completes(i) /\ calls[i].url = u /\ permissionsCache'[u] = calls'[i].value
       /\ permissionsCache' = <<>>
          => \A R \in Routes :
                 getPermissionsFromRoute(R)'.t = "str" => getPermissionsSync(R)' = Undef
       /\ (Starts /\ Started.kind = "get" /\ permissionsCache = <<>> /\ StartedSource.t = "str")
          => /\ Started.st = "loading" /\ Started.url = StartedSource.s
             /\ httpLog' = [httpLog EXCEPT ![StartedSource.s] = @ + 1]]_vars

\* A document was fetched, the cache is empty again and a second
\* getPermissions call for the same source has issued a second request.
C21_Witness ==
    \E i, j \in 1..Len(calls) :
        /\ i < j /\ FetchOk(i) /\ calls[i].st = "resolved"
        /\ calls[j].kind = "get" /\ calls[j].st = "loading" /\ calls[j].url = calls[i].url
        /\ permissionsCache = <<>>
        /\ httpLog[calls[i].url] = 2

(***************************************************************************)
(* setPermissions with structured documents, followed by reads.            *)
(***************************************************************************)
setPermissionsDoc == setPermissionsWith({DocObj, DocRoutes}, {NoArg, RA, RB})

NextSet ==
    \/ setPermissionsDoc
    \/ getPermissionsCall
    \/ getPermissionsSyncCall

SpecSet == InitApi /\ [][NextSet]_vars

\* C22: after setPermissions(doc, R) with a mapping or a sequence doc,
\* getPermissionsSync(R) returns doc, isAuthorized(q, R) is evaluated
\* against doc, the permissions of the other routes and the default
\* permissions are unchanged, and getPermissions(R) yields doc without a
\* transport request.
C22_SetPermissionsTakesEffect ==
    [][/\ \A routePath \in ApiRoutes :
              (/\ last'.tick # last.tick /\ last'.op = "setPermissions" /\ last'.out = "ok"
               /\ last'.routePath = routePath
               /\ last'.object.t \in {"map", "arr"})
              => /\ getPermissionsSync(routePath)' = last'.object
                 /\ \A q \in {Undef, Str(RA)} :
                        isAuthorized(q, routePath)'.perms = last'.object
                 /\ \A R \in Routes \ {RouteArg(routePath)} :
                        routes'[R].permissions = routes[R].permissions
                 /\ defaultPermissions' = defaultPermissions
                 /\ httpLog' = httpLog /\ permissionsCache' = permissionsCache
       /\ (/\ last'.tick # last.tick /\ last'.op = "getPermissions" /\ last'.out = "ok"
           /\ routes[RouteArg(last'.routePath)].permissions.t \in {"map", "arr"})
          => /\ Starts /\ Started.st = "resolved"
             /\ Started.value = routes[RouteArg(last'.routePath)].permissions
             /\ httpLog' = httpLog]_vars

\* setPermissions put a sequence on '/b' while '/a' was current, and a
\* later getPermissions('/b') yielded it without a request.
C22_Witness ==
    /\ current = RA /\ routes[RB].permissions = DocRoutes
    /\ routes[RA] = InitialRoutes[RA]
    /\ last.op = "getPermissions" /\ last.routePath = RB
    /\ Len(calls) = 1 /\ calls[1].st = "resolved" /\ calls[1].value = DocRoutes
    /\ \A u \in Urls : httpLog[u] = IF u \in DOMAIN permissionsCache THEN 1 ELSE 0

(***************************************************************************)
(* Overlapping calls and fetches, without and with cache clears.           *)
(***************************************************************************)
NextOverlap ==
    \/ authorizeOrRedirect
    \/ getPermissions
    \/ retrieveOk
    \/ retrieveFail
    \/ _authorizeOrRedirect

SpecOverlap == Init /\ [][NextOverlap]_vars

\* The number of transport requests issued so far.
Requests == httpLog[S1] + httpLog[S2]

clearPermissionsCacheCallCancelling ==
    /\ permissionsCache' = <<>>
    /\ calls' = [i \in 1..Len(calls) |->
                    IF calls[i].st = "loading"
                    THEN [calls[i] EXCEPT !.st = IF calls[i].kind = "gate" THEN "failed" ELSE "rejected"]
                    ELSE calls[i]]
    /\ last' = Direct("clearPermissionsCache", NoArg, <<>>, Undef, Undef, Num(Requests), "ok")
    /\ UNCHANGED <<config, location, httpLog, nav, lastAuth, nsets>>

\* clearPermissionsCache(), called directly; it returns nothing, and res
\* keeps the number of transport requests issued before it.
clearPermissionsCacheCall ==
    /\ permissionsCache' = <<>>
    /\ last' = Direct("clearPermissionsCache", NoArg, <<>>, Undef, Undef, Num(Requests), "ok")
    /\ UNCHANGED <<config, location, calls, httpLog, nav, lastAuth, nsets>>

NextClear ==
    \/ getPermissions
    \/ retrieveOk
    \/ retrieveFail
    \/ clearPermissionsCacheCall

SpecClear == Init /\ [][NextClear]_vars

\* C23: clearPermissionsCache leaves the fetches in flight as they are, and
\* a fetch that succeeds afterwards still writes its document under its
\* source identifier: an entry can be present again after a clear without
\* any new request.
C23_ClearDoesNotCancel ==
    [][/\ (last'.tick # last.tick /\ last'.op = "clearPermissionsCache")
          => /\ permissionsCache' = <<>>
             /\ calls' = calls /\ httpLog' = httpLog
       /\ \A i \in 1..Len(calls) :
              Completes(i)
              => /\ calls[i].url \in DOMAIN permissionsCache'
                 /\ permissionsCache'[calls[i].url] = calls'[i].value
                 /\ httpLog' = httpLog]_vars

\* The cache was cleared while a fetch was in flight, no request has been
\* issued since, and the source is cached.
C23_Witness ==
    /\ last.op = "clearPermissionsCache"
    /\ Requests = last.res.n
    /\ S1 \in DOMAIN permissionsCache

\* C24: a call for an uncached source S that starts while a fetch for S is
\* in flight issues its own request; every fetch that succeeds writes the
\* cache, so the entry for S is the document of the request that completed
\* last.
C24_OverlappingFetchesLastWriteWins ==
    [][/\ (/\ Starts /\ StartedSource.t = "str"
           /\ StartedSource.s \notin DOMAIN permissionsCache
           /\ \E j \in 1..Len(calls) : calls[j].st = "loading" /\ calls[j].url = StartedSource.s)
          => /\ Started.st = "loading" /\ Started.url = StartedSource.s
             /\ httpLog' = [httpLog EXCEPT ![StartedSource.s] = @ + 1]
       /\ \A i \in 1..Len(calls) :
              (Completes(i) /\ \E j \in 1..Len(calls) : j # i /\ FetchOk(j) /\ calls[j].url = calls[i].url)
              => permissionsCache' = (calls[i].url :> calls'[i].value) @@ permissionsCache]_vars

\* Two overlapping calls for the same source both issued a request and both
\* succeeded with different documents; the cache holds one of the two.
C24_Witness ==
    \E i, j \in 1..Len(calls) :
        /\ i # j /\ FetchOk(i) /\ FetchOk(j)
        /\ calls[i].url = S1 /\ calls[j].url = S1
        /\ calls[i].value = DocBlank /\ calls[j].value = DocRoutes
        /\ httpLog[S1] = 2
        /\ permissionsCache[S1] = DocRoutes

\* C25: isAuthorized issues no transport request and changes neither the
\* cache, the route table, the default permissions, the global override nor
\* the Default Access Policy, for every query and route, also when the
\* route's source identifier is not cached.
C25_IsAuthorizedChangesNothing ==
    [][/\ httpLog' = httpLog /\ calls' = calls
       /\ permissionsCache' = permissionsCache
       /\ routes' = routes
       /\ defaultPermissions' = defaultPermissions
       /\ customAuthorization' = customAuthorization
       /\ defaultAccess' = defaultAccess
       /\ current' = current /\ location' = location /\ nav' = nav]_vars

\* isAuthorized was called with a string query on a route whose source
\* identifier is not cached: it decided on {} and nothing was requested.
C25_Witness ==
    /\ Called /\ lastAuth.query = Str(RA) /\ lastAuth.routePath = RA
    /\ routes[RA].permissions = Str(S1) /\ S1 \notin DOMAIN permissionsCache
    /\ lastAuth.sync = Undef
    /\ lastAuth.out.perms = EmptyMap /\ lastAuth.out.res = "false"
    /\ httpLog[S1] = 0 /\ calls = <<>>

\* C26: each authorizeOrRedirect call issues at most one transport request,
\* passes from loading to deciding once, evaluates its decision once,
\* allowed and denied are terminal, and once its permissions promise has
\* settled the call settles its own result, allowed or denied.
C26_GateLifecycle ==
    /\ [][/\ ~Starts => httpLog' = httpLog
          /\ Starts => Requests' <= Requests + 1
          /\ \A i \in Gates :
                 /\ calls'[i].url = calls[i].url
                 /\ calls[i].st = "loading" => calls'[i].st \in {"loading", "loaded", "failed"}
                 /\ Settled(calls[i])
                    => calls'[i].st \in {calls[i].st, "allowed", "denied", "hung"}
                 /\ Decided(i) => calls'[i] = calls[i]
                 /\ calls'[i].dec # calls[i].dec => Decides(i)]_vars
    /\ \A i \in 1..MaxCalls :
           (i <= Len(calls) /\ calls[i].kind = "gate" /\ calls[i].st \in {"loaded", "failed"})
           ~> (i <= Len(calls) /\ calls[i].st \in {"allowed", "denied"})

\* An override was invoked by the last isAuthorized call.
OverrideInvoked ==
    /\ Called
    /\ \/ lastAuth.out.via = "global"
       \/ lastAuth.out.via = "route" /\ lastAuth.curFn.t = "fn"

\* C27: the permissions argument of an invoked override is the document
\* getPermissionsSync yields for the route whenever it yields one, and the
\* empty mapping exactly when it yields undefined.
C27_EmptyMappingOnlyWhenAbsent ==
    OverrideInvoked
    => lastAuth.out.perms = IF lastAuth.sync = Undef THEN EmptyMap ELSE lastAuth.sync

\* C27, amended: the permissions argument is what getPermissionsSync yields
\* when that is truthy, and the empty mapping when it is undefined or any
\* other falsy value; it is never null or undefined.
C27_EmptyMappingWhenFalsy ==
    OverrideInvoked
    => /\ lastAuth.out.perms = IF Truthy(lastAuth.sync) THEN lastAuth.sync ELSE EmptyMap
       /\ lastAuth.out.perms.t \notin {"null", "undef"}

\* The global override was invoked on a route whose cached document is the
\* empty string and received the empty mapping.
C27_Witness ==
    /\ OverrideInvoked /\ lastAuth.out.via = "global"
    /\ lastAuth.sync = DocBlank
    /\ lastAuth.out.perms = EmptyMap

setCustomAuthorizationCallKeepsOnNull ==
    \E callbackFunction \in {Fn("allow"), Fn("deny"), Fn("echo"), Null} :
        /\ customAuthorization' = IF callbackFunction = Null THEN customAuthorization
                                  ELSE callbackFunction
        /\ last' = Direct("setCustomAuthorization", NoArg, <<>>, callbackFunction, Undef, Undef, "ok")
        /\ UNCHANGED <<routes, current, location, defaultPermissions, defaultAccess,
                       permissionsCache, calls, httpLog, nav, lastAuth, nsets>>

\* setCustomAuthorization(callbackFunction), called directly.
setCustomAuthorizationCall ==
    \E callbackFunction \in {Fn("allow"), Fn("deny"), Fn("echo"), Null} :
        /\ customAuthorization' = callbackFunction
        /\ last' = Direct("setCustomAuthorization", NoArg, <<>>, callbackFunction, Undef, Undef, "ok")
        /\ UNCHANGED <<routes, current, location, defaultPermissions, defaultAccess,
                       permissionsCache, calls, httpLog, nav, lastAuth, nsets>>

InitOverride ==
    /\ \E p \in {Str(S1), DocRoutes, DocObj}, f \in {Undef, Fn("allow")} :
           routes = (RA :> Descriptor(p, f, Undef))
                    @@ (RB :> Descriptor(Undef, Undef, Undef))
                    @@ (RItem :> Descriptor(DocRoutes, Undef, Undef))
    /\ current \in {RA, RB}
    /\ location = PathOf(current)
    /\ defaultPermissions = Undef
    /\ customAuthorization = Undef
    /\ defaultAccess \in BOOLEAN
    /\ permissionsCache \in {<<>>, (S1 :> DocRoutes)}
    /\ calls = <<>>
    /\ httpLog = [u \in Urls |-> IF u \in DOMAIN permissionsCache THEN 1 ELSE 0]
    /\ nav = <<>>
    /\ lastAuth = NoAuth
    /\ last = NoLast
    /\ nsets = 0

NextOverride == setCustomAuthorizationCall \/ isAuthorizedCall

SpecOverride == InitOverride /\ [][NextOverride]_vars

\* The global override as the setCustomAuthorization calls so far leave it.
GlobalSet == IF last.op = "setCustomAuthorization" THEN last.object ELSE Undef

\* The branch a decision without override takes.
StructuralVia(query, permissions) ==
    IF query.t = "str" /\ permissions.t = "arr" THEN "array"
    ELSE IF query.t = "str" THEN "findIn"
    ELSE IF query.t = "fn" THEN "query"
    ELSE "default"

\* C29: on a route without per-route override, isAuthorized returns the
\* truthiness of the global override last set, for every query type and
\* permissions shape; after setCustomAuthorization(null) the very next call
\* no longer consults it and decides by array membership, hierarchical
\* match, function query or default policy.
C29_GlobalOverrideUntilCleared ==
    [][/\ last'.tick # last.tick => customAuthorization' = last'.object
       /\ \A routePath \in {NoArg, RA, RB} :
             (/\ lastAuth' # lastAuth /\ lastAuth'.routePath = routePath
              /\ ~hasCustomRouteAuthorization(RouteArg(routePath)))
             => LET perms == OrElse(getPermissionsSync(routePath), EmptyMap)
                IN IF GlobalSet.t = "fn"
                   THEN /\ lastAuth'.out.via = "global"
                        /\ lastAuth'.out.res = ApplyRes(GlobalSet.s[1], lastAuth'.query, perms,
                                                        routes[RouteArg(routePath)], Undef)
                   ELSE /\ lastAuth'.out.via = StructuralVia(lastAuth'.query, perms)
                        /\ lastAuth'.out.via = "default"
                           => lastAuth'.out.res = BoolRes(defaultAccess)
                        /\ lastAuth'.out.via = "array"
                           => lastAuth'.out.res = BoolRes(IndexOf(perms, lastAuth'.query.s) # 0)]_vars

\* After setCustomAuthorization(null), isAuthorized('/a') was decided by
\* membership in the cached sequence.
C29_Witness ==
    /\ last.op = "setCustomAuthorization" /\ last.object = Null
    /\ Called /\ lastAuth.globalFn = Null
    /\ lastAuth.query = Str(RA)
    /\ lastAuth.out.via = "array" /\ lastAuth.out.res = "true"

\* The route the last isAuthorized call was about has a per-route override.
AuthRouteOverride ==
    IF lastAuth.routePath = NoArg THEN lastAuth.curFn.t = "fn" ELSE lastAuth.ownFn.t = "fn"

\* C30: with no per-route and no global override, isAuthorized(f) for a
\* function f returns the truthiness of f(f, permissions or {}, route
\* descriptor, route parameters); f is not invoked when an override is set.
C30_FunctionQuery ==
    (Called /\ lastAuth.query.t = "fn")
    => LET rp == IF lastAuth.routePath = NoArg THEN lastAuth.cur ELSE lastAuth.routePath
           result == Apply(lastAuth.query.s[1], lastAuth.query,
                           OrElse(lastAuth.sync, EmptyMap), routes[rp], Undef)
       IN IF ~AuthRouteOverride /\ lastAuth.globalFn.t # "fn"
          THEN /\ lastAuth.out.via = "query"
               /\ lastAuth.out.res = BoolRes(Truthy(result))
          ELSE lastAuth.out.via # "query"

\* isAuthorized(f) with f = function (query) { return query; } returned
\* true on a route with an uncached source and no override.
C30_Witness ==
    /\ Called /\ lastAuth.query = Fn("echo")
    /\ ~AuthRouteOverride /\ lastAuth.globalFn.t # "fn"
    /\ lastAuth.sync = Undef /\ lastAuth.out.perms = EmptyMap
    /\ lastAuth.out.via = "query" /\ lastAuth.out.res = "true"

\* C31: findIn raises no error and returns a boolean for every query and
\* every document built from mappings, sequences, scalars and null; a null
\* or scalar value reached before the last token yields false.
C31_FindInNeverThrows ==
    FoundFindIn => last.out \in {"true", "false"}

\* C32: setAccessDeniedRouteFor(target, R) for a known route R returns
\* without error and makes target the denial target of R, leaving the
\* denial targets of the other routes unchanged.
C32_SetAccessDeniedRoute ==
    [][\A routePath \in {NoArg, RA, RB} :
          (/\ last'.tick # last.tick /\ last'.op = "setAccessDeniedRouteFor"
           /\ last'.routePath = routePath)
          => /\ last'.out = "ok"
             /\ routes'[RouteArg(routePath)].deniedRoute = last'.object
             /\ getAccessDeniedRouteFor(RouteArg(routePath))' = last'.object.s
             /\ \A R \in Routes \ {RouteArg(routePath)} :
                    routes'[R].deniedRoute = routes[R].deniedRoute]_vars

C34_CacheHoldsFetchedDocuments ==
    \A u \in DOMAIN permissionsCache :
        /\ u \in Urls /\ httpLog[u] >= 1
        /\ \E i \in 1..Len(calls) :
               FetchOk(i) /\ calls[i].url = u /\ calls[i].value = permissionsCache[u]
        /\ permissionsCache[u] \in ServerDocs
        /\ permissionsCache[u] \notin FailResponses

\* One fetch for a source failed, another succeeded and its document is
\* cached, while static default permissions are set and not cached.
C34_Witness ==
    \E i, j \in 1..Len(calls) :
        /\ FetchFailed(i) /\ FetchOk(j) /\ calls[i].url = calls[j].url
        /\ DOMAIN permissionsCache = {calls[j].url}
        /\ permissionsCache[calls[j].url] = calls[j].value
        /\ defaultPermissions = DocObj
====
